---- MODULE Spec2Model ----
(***************************************************************************)
(* Model of the financial-statement normalization engine of               *)
(* backend/utils/finsheet_math.py: the loader (load_db), the version       *)
(* reconciler (find_new_lines, get_relevant_lines, update_df, save_db,     *)
(* main) and the delta normalizer (group_by_conta_prefix, b3_math); of the *)
(* sector store router, the filing filter and the scrape loop of           *)
(* backend/utils/finsheet_scrap.py (save_to_db, get_nsd_data,              *)
(* filter_nsd_data, finsheet_scrape); and of the NSD discovery and scrape  *)
(* of backend/utils/nsd_scrap.py and nsd_manager.py (generate_nsd_list,    *)
(* generate_missing_nsds, parse_data, save_to_db, nsd_scrape).             *)
(*                                                                         *)
(* A pandas DataFrame is a sequence of rows; a row is a record with the    *)
(* columns                                                                 *)
(*     nsd, company_name, tipo, conta, quarter, valor, version.            *)
(* nsd stands for every column that is neither a merge key nor valor nor   *)
(* version (nsd, setor, subsetor, segmento, quadro, descricao): the code   *)
(* carries all of them through the same way.  quarter is the date as the   *)
(* integer yyyymm, so that .dt.year and .dt.month are Year and Month.      *)
(* The 'year' helper column the code adds and drops again is not stored:   *)
(* it is Year(quarter) wherever the code reads it.                         *)
(***************************************************************************)
EXTENDS Integers, Sequences, FiniteSets, TLC

VARIABLES
    pc,                 \* the statement that runs next
    df_raw,             \* load_db(db_file): the as-reported store
    df_math,            \* load_db(' math.db'): the normalized store, as loaded
    df_new_lines,       \* find_new_lines(df_raw, df_math)
    df_relevant_lines,  \* get_relevant_lines(...)[0], the batch handed to group_by_conta_prefix
    unique_new_lines,   \* get_relevant_lines(...)[1]
    result_df,          \* group_by_conta_prefix(df_relevant_lines)
    df_math_updated,    \* update_df(df_math, result_df, unique_new_lines)
    math_db,            \* the content of the ' math.db' file
    \* finsheet_scrap.save_to_db
    stores,             \* the files of settings.db_folder: file name -> rows of its finsheet table
    stores_before,      \* the files as they were when the last call was entered
    df_saved,           \* the df the last call was handed
    failed_setor,       \* the setor whose to_sql raised in the last call
    error_logged,       \* system.log_error ran in the last call
    calls,              \* calls of save_to_db so far
    \* get_nsd_data
    df_merged,          \* the merged frame after drop_duplicates
    df_sorted,          \* the frame get_nsd_data returns
    \* generate_nsd_list, generate_missing_nsds
    nsd_table,          \* the rows (nsd, sent_date) of the nsd table
    current_date,       \* datetime.now(), in days
    last_nsd,           \* result[0]
    nsd_new_values,
    nsd_missing_values,
    missing_nsds,       \* what generate_missing_nsds returns
    \* finsheet_scrape
    size_nsd,           \* len(df_nsd_missing)
    batch_size,         \* settings.batch_size
    counter,
    all_data,           \* the filings scraped and not yet handed to save_to_db
    flushed,            \* the filings handed to save_to_db, in order
    \* nsd_scrap.nsd_scrape
    nsd_list,           \* the candidate numbers nsd_scrape was handed
    nsd_i,              \* candidates the for loop has taken so far
    nsd_all_data,       \* all_data of nsd_scrape: the records parsed and not yet saved
    nsd_parsed,         \* every record parse_data returned with a company, in order
    nsd_passed,         \* every record handed to nsd_scrap.save_to_db, in order
    \* finsheet_math.load_db
    finsheet_rows,      \* the rows of the finsheet table of the file load_db reads
    \* finsheet_math.main over the files of the folder
    db_files,           \* len(valid_db_files)
    file_i,             \* files the for loop has taken so far
    files_outcome,      \* what became of each file taken, in order
    \* finsheet_scrap.filter_nsd_data
    df_nsd,             \* the filings listed for scraping
    existing_data,      \* load_existing_data()
    df_nsd_missing,     \* what filter_nsd_data returns
    \* successive reconciliation runs
    runs,               \* runs of finsheet_math.main so far
    stored_ever         \* every (key, version) the ' math.db' file has held

mathVars == <<df_raw, df_math, df_new_lines, df_relevant_lines, unique_new_lines,
              result_df, df_math_updated, math_db>>
routerVars == <<stores, stores_before, df_saved, failed_setor, error_logged, calls>>
listingVars == <<df_merged, df_sorted>>
discoveryVars == <<nsd_table, current_date, last_nsd, nsd_new_values, nsd_missing_values,
                   missing_nsds>>
scrapeVars == <<size_nsd, batch_size, counter, all_data, flushed>>
restVars == <<nsd_list, nsd_i, nsd_all_data, nsd_parsed, nsd_passed, finsheet_rows,
              db_files, file_i, files_outcome, df_nsd, existing_data, df_nsd_missing,
              runs, stored_ever>>
ioVars == <<routerVars, listingVars, discoveryVars, scrapeVars, restVars>>

vars == <<pc, mathVars, ioVars>>

(***************************************************************************)
(* Bounds of the model.                                                    *)
(***************************************************************************)
MaxBatch == 5
MaxRaw == 3
MaxMath == 2

(***************************************************************************)
(* Generic helpers on sequences and sets.                                  *)
(***************************************************************************)
Range(s) == {s[i] : i \in DOMAIN s}

RECURSIVE Concat(_)
Concat(ss) == IF ss = <<>> THEN <<>> ELSE Head(ss) \o Concat(Tail(ss))

Reverse(s) == [i \in 1..Len(s) |-> s[Len(s) + 1 - i]]

Max(S) == CHOOSE x \in S : \A y \in S : y <= x
Min(S) == CHOOSE x \in S : \A y \in S : x <= y

RECURSIVE SubsetsUpTo(_, _)
SubsetsUpTo(U, n) ==
    IF n = 0 THEN {{}}
    ELSE LET P == SubsetsUpTo(U, n - 1)
         IN  P \cup {S \cup {x} : S \in P, x \in U}

\* every arrangement of the elements of a sequence
RECURSIVE Permutations_(_)
Permutations_(s) ==
    IF Len(s) <= 1 THEN {s}
    ELSE UNION {{<<s[i]>> \o p :
                   p \in Permutations_([j \in 1..(Len(s) - 1) |->
                                          IF j < i THEN s[j] ELSE s[j + 1]])}
                : i \in 1..Len(s)}

(***************************************************************************)
(* Rows, keys, dates.                                                      *)
(***************************************************************************)
Row(n, c, t, a, q, v, ver) ==
    [nsd |-> n, company_name |-> c, tipo |-> t, conta |-> a, quarter |-> q,
     valor |-> v, version |-> ver]

Year(q) == q \div 100
Month(q) == q % 100

\* Python's order on the strings of the model (digits before capitals)
StringOrder ==
    <<"", "1", "1.01", "10", "2", "3", "3.01", "6", "6.01", "9", "A", "B", "C", "D", "E",
      "FINANCEIRO", "SAUDE", "T", "ZZZZZZZZZZ", "ZZZZZZZZZZA">>
Rank(s) == CHOOSE i \in DOMAIN StringOrder : StringOrder[i] = s

\* conta.str[0]
FirstChar(conta) ==
    CASE conta = "1.01" -> "1"
      [] conta = "3.01" -> "3"
      [] conta = "6.01" -> "6"

\* settings.cols_order: the merge and sort key of a row
cols_order(r) == <<Rank(r.company_name), Rank(r.tipo), Rank(r.conta), r.quarter>>

\* the columns ['company_name', 'conta', 'tipo', 'year'] of a row, as a tuple
YearKey(r) == <<r.company_name, r.conta, r.tipo, Year(r.quarter)>>

LexLess(a, b) ==
    \E i \in 1..Len(a) : a[i] < b[i] /\ \A j \in 1..(i - 1) : a[j] = b[j]

RECURSIVE SortedKeys(_)
SortedKeys(S) ==
    IF S = {} THEN <<>>
    ELSE LET m == CHOOSE x \in S : \A y \in S : x = y \/ LexLess(x, y)
         IN  <<m>> \o SortedKeys(S \ {m})

\* DataFrame.sort_values(by=cols): a stable sort on the key columns
sort_values(df) ==
    LET keys == SortedKeys({cols_order(r) : r \in Range(df)})
    IN  Concat([i \in 1..Len(keys) |->
                  SelectSeq(df, LAMBDA r : cols_order(r) = keys[i])])

\* DataFrame.drop_duplicates(): the first of each run of fully equal rows stays
drop_duplicates(df) ==
    LET keep == {i \in 1..Len(df) : \A j \in 1..(i - 1) : df[j] # df[i]}
        RECURSIVE Pick(_)
        Pick(i) == IF i > Len(df) THEN <<>>
                   ELSE (IF i \in keep THEN <<df[i]>> ELSE <<>>) \o Pick(i + 1)
    IN  Pick(1)

(***************************************************************************)
(* settings.last_quarters, settings.all_quarters                           *)
(***************************************************************************)
last_quarters == {"3", "4"}
all_quarters == {"6", "7"}

\* the value pandas puts where a merge finds no partner
NaN == -1000000
\* indices[quarter_name] = None
NoIndex == 0

(***************************************************************************)
(* find_new_lines                                                          *)
(***************************************************************************)
Merged(l, r, ind) ==
    [company_name |-> IF ind = "right_only" THEN r.company_name ELSE l.company_name,
     tipo         |-> IF ind = "right_only" THEN r.tipo ELSE l.tipo,
     conta        |-> IF ind = "right_only" THEN r.conta ELSE l.conta,
     quarter      |-> IF ind = "right_only" THEN r.quarter ELSE l.quarter,
     nsd_new      |-> IF ind = "right_only" THEN NaN ELSE l.nsd,
     valor_new    |-> IF ind = "right_only" THEN NaN ELSE l.valor,
     version_new  |-> IF ind = "right_only" THEN NaN ELSE l.version,
     nsd_old      |-> IF ind = "left_only" THEN NaN ELSE r.nsd,
     valor_old    |-> IF ind = "left_only" THEN NaN ELSE r.valor,
     version_old  |-> IF ind = "left_only" THEN NaN ELSE r.version,
     _merge       |-> ind]

\* pd.merge(df_new, df_existing, on=cols, how='outer', suffixes=('_new', '_old'),
\* indicator=True): keys in sorted order, every left row with every right row
merge_outer(df_new, df_existing) ==
    LET keys == SortedKeys({cols_order(r) : r \in Range(df_new) \cup Range(df_existing)})
        Rows(k) ==
            LET L == SelectSeq(df_new, LAMBDA r : cols_order(r) = k)
                R == SelectSeq(df_existing, LAMBDA r : cols_order(r) = k)
            IN  IF R = <<>> THEN [i \in 1..Len(L) |-> Merged(L[i], L[i], "left_only")]
                ELSE IF L = <<>> THEN [i \in 1..Len(R) |-> Merged(R[i], R[i], "right_only")]
                ELSE [i \in 1..(Len(L) * Len(R)) |->
                        Merged(L[((i - 1) \div Len(R)) + 1], R[((i - 1) % Len(R)) + 1], "both")]
    IN  Concat([i \in 1..Len(keys) |-> Rows(keys[i])])

\* a > b on two columns: False wherever either side is NaN
Gt(a, b) == a # NaN /\ b # NaN /\ a > b

\* the comparison with >= in place of >
VersionIsNewerOrEqual(m) ==
    m.version_new # NaN /\ m.version_old # NaN /\ m.version_new >= m.version_old

\* df_new_lines['version_new'] > df_new_lines['version_old']
VersionIsNewer(m) == Gt(m.version_new, m.version_old)

find_new_lines(df_existing, df_new) ==
    SelectSeq(merge_outer(df_new, df_existing),
              LAMBDA m : (VersionIsNewer(m) /\ m._merge = "both") \/ m._merge = "left_only")

(***************************************************************************)
(* get_relevant_lines                                                      *)
(***************************************************************************)
\* combine_first called the wrong way round: the existing value wins
combine_first_existing(new, old) == IF old = NaN THEN new ELSE old

\* Series.combine_first: the caller's value, the other's where it is NaN
combine_first(new, old) == IF new = NaN THEN old ELSE new

get_relevant_lines(df_existing, df_new) ==
    LET unique == drop_duplicates([i \in 1..Len(df_new) |-> YearKey(df_new[i])])
        relevant == SelectSeq(df_existing, LAMBDA e : YearKey(e) \in Range(unique))
        \* the '_old' columns dropped, the '_new' suffix removed
        relevant_new == [i \in 1..Len(df_new) |->
                           [company_name |-> df_new[i].company_name,
                            tipo |-> df_new[i].tipo, conta |-> df_new[i].conta,
                            quarter |-> df_new[i].quarter, nsd |-> df_new[i].nsd_new,
                            valor |-> df_new[i].valor_new, version |-> df_new[i].version_new]]
        \* the left merge on company_name, conta, tipo, year, quarter
        Updated(e) ==
            LET hits == SelectSeq(relevant_new, LAMBDA c : cols_order(c) = cols_order(e))
            IN  IF hits = <<>>
                THEN <<[e EXCEPT !.version = combine_first(NaN, e.version),
                                 !.valor = combine_first(NaN, e.valor)]>>
                ELSE [i \in 1..Len(hits) |->
                        [e EXCEPT !.version = combine_first(hits[i].version, e.version),
                                  !.valor = combine_first(hits[i].valor, e.valor)]]
    IN  <<Concat([i \in 1..Len(relevant) |-> Updated(relevant[i])]), unique>>

(***************************************************************************)
(* b3_math and group_by_conta_prefix                                       *)
(***************************************************************************)
Months == <<3, 6, 9, 12>>

\* float arithmetic: NaN in, NaN out
plus(a, b) == IF a = NaN \/ b = NaN THEN NaN ELSE a + b
minus(a, b) == IF a = NaN \/ b = NaN THEN NaN ELSE a - b

\* Series.max(): the NaN are skipped, NaN when nothing is left
max_skipna(S) == IF S \ {NaN} = {} THEN NaN ELSE Max(S \ {NaN})

\* apply_b3_math_logic with every subtraction taken from the original values
apply_b3_math_logic_snapshot(v3, v6, v9, v12, conta_prefix) ==
    IF conta_prefix \in last_quarters
    THEN <<v3, v6, v9, minus(v12, plus(plus(v9, v6), v3))>>
    ELSE IF conta_prefix \in all_quarters
    THEN <<v3, minus(v6, v3), minus(v9, plus(v6, v3)), minus(v12, plus(plus(v9, v6), v3))>>
    ELSE <<v3, v6, v9, v12>>

\* apply_b3_math_logic: the adjusted <<v3, v6, v9, v12>>
apply_b3_math_logic(v3, v6, v9, v12, conta_prefix) ==
    IF conta_prefix \in last_quarters
    THEN <<v3, v6, v9, minus(v12, plus(plus(v9, v6), v3))>>
    ELSE IF conta_prefix \in all_quarters
    THEN LET a6 == minus(v6, v3)
             a9 == minus(v9, plus(a6, v3))
             a12 == minus(v12, plus(plus(a9, a6), v3))
         IN  <<v3, a6, a9, a12>>
    ELSE <<v3, v6, v9, v12>>

\* the body of b3_math under its 'if': month maxima, arithmetic, update_dataframe
b3_math_quarters(df, conta_prefix) ==
    LET df_quarter(k) == {i \in 1..Len(df) : Month(df[i].quarter) = Months[k]}
        indices == [k \in 1..4 |->
                      IF df_quarter(k) = {} THEN NoIndex ELSE Min(df_quarter(k))]
        values == [k \in 1..4 |->
                     IF df_quarter(k) = {} THEN 0
                     ELSE max_skipna({df[i].valor : i \in df_quarter(k)})]
        adjusted == apply_b3_math_logic(values[1], values[2], values[3], values[4],
                                        conta_prefix)
    IN  \* update_dataframe
        [i \in 1..Len(df) |->
           IF \E k \in 1..4 : indices[k] = i
           THEN [df[i] EXCEPT !.valor = adjusted[CHOOSE k \in 1..4 : indices[k] = i]]
           ELSE df[i]]

\* b3_math with the last-quarter arithmetic applied whatever the family
b3_math_every_family(df, conta_prefix) == b3_math_quarters(df, "3")

b3_math(df, conta_prefix) ==
    IF conta_prefix \in last_quarters \/ conta_prefix \in all_quarters
    THEN b3_math_quarters(df, conta_prefix)
    ELSE df

group_by_conta_prefix(df) ==
    IF df # <<>>
    THEN LET prefixes == SortedKeys({<<Rank(FirstChar(r.conta))>> : r \in Range(df)})
             group(p) == SelectSeq(df, LAMBDA r : <<Rank(FirstChar(r.conta))>> = p)
         IN  Concat([i \in 1..Len(prefixes) |->
                       b3_math(group(prefixes[i]), FirstChar(group(prefixes[i])[1].conta))])
    ELSE <<>>

(***************************************************************************)
(* update_df                                                               *)
(***************************************************************************)
update_df(math, relevant, unique) ==
    LET math_updated == SelectSeq(math, LAMBDA r : YearKey(r) \notin Range(unique))
    IN  drop_duplicates(sort_values(math_updated \o relevant))

\* main(), from the two loaded stores to the frame handed to save_db
\* (the math store as loaded when there is nothing new)
reconcile(raw, math) ==
    LET new_lines == find_new_lines(raw, math)
        rel == get_relevant_lines(raw, new_lines)
    IN  IF new_lines = <<>> THEN math
        ELSE update_df(math, group_by_conta_prefix(rel[1]), rel[2])

(***************************************************************************)
(* The stores the model draws its inputs from.  One filing (nsd) of a      *)
(* company for a quarter, in a version, gives one row per account; the     *)
(* raw store is appended to, so it may hold a quarter in two versions.     *)
(***************************************************************************)
NsdOf(c, q, ver) == (q * 10) + ver + (IF c = "B" THEN 5 ELSE 0)
Filed(c, a, q, ver, v) == Row(NsdOf(c, q, ver), c, "T", a, q, v, ver)

\* rows a batch handed to group_by_conta_prefix is drawn from
DeltaRows ==
    {Filed("A", "6.01", 202003, 1, 10), Filed("A", "6.01", 202006, 1, 18),
     Filed("A", "6.01", 202009, 1, 25), Filed("A", "6.01", 202012, 1, 40),
     Filed("A", "3.01", 202003, 1, 10), Filed("A", "3.01", 202006, 1, 5),
     Filed("A", "3.01", 202009, 1, 8),  Filed("A", "3.01", 202012, 1, 30),
     Filed("A", "6.01", 202103, 1, 50), Filed("A", "3.01", 202112, 1, 60),
     Filed("B", "6.01", 202006, 1, 70), Filed("B", "3.01", 202012, 1, 80),
     Filed("A", "1.01", 202003, 1, 11), Filed("A", "1.01", 202012, 1, 12),
     Filed("A", "6.01", 202012, 2, 42), Filed("A", "3.01", 202012, 2, 33)}

\* rows of the as-reported store
RawRows ==
    {Filed("A", "3.01", 202009, 1, 8),  Filed("A", "3.01", 202012, 1, 100),
     Filed("A", "3.01", 202012, 2, 120), Filed("A", "3.01", 202112, 1, 60),
     Filed("A", "6.01", 202006, 1, 18), Filed("A", "6.01", 202012, 1, 40),
     Filed("B", "3.01", 202012, 1, 80), Filed("A", "3.01", 202009, 2, 9)}

\* rows of the normalized store
MathRows ==
    {Filed("A", "3.01", 202012, 1, 92),  Filed("A", "3.01", 202012, 2, 150),
     Filed("A", "3.01", 202009, 1, 7),   Filed("A", "3.01", 202112, 2, 61),
     Filed("A", "6.01", 202012, 2, 16),  Filed("B", "3.01", 202012, 1, 80)}

\* a set of rows as a frame: in key order, oldest version first, or the reverse
RECURSIVE InOrder(_)
InOrder(S) ==
    IF S = {} THEN <<>>
    ELSE LET k(r) == cols_order(r) \o <<r.version>>
             m == CHOOSE x \in S : \A y \in S : x = y \/ LexLess(k(x), k(y))
         IN  <<m>> \o InOrder(S \ {m})

Frames(U, n) == UNION {{InOrder(S), Reverse(InOrder(S))} : S \in SubsetsUpTo(U, n)}

(***************************************************************************)
(* finsheet_scrap.save_to_db: the sector store router.  A file of          *)
(* settings.db_folder is NoFile while it does not exist, and File(rows),   *)
(* the rows of its finsheet table in insertion order, once it does.  A row *)
(* of the                                                                  *)
(* write batch carries setor besides the columns of Row; subsetor,         *)
(* segmento, quadro and descricao are carried along like nsd.              *)
(***************************************************************************)
NoFile == [exists |-> FALSE, rows |-> <<>>]
File(rows) == [exists |-> TRUE, rows |-> rows]
NoFailure == "no failure"

Sectors == {"", "FINANCEIRO", "SAUDE"}

SheetRow(n, s, c, a, q, v, ver) ==
    [nsd |-> n, setor |-> s, company_name |-> c, tipo |-> "T", conta |-> a,
     quarter |-> q, valor |-> v, version |-> ver]

\* the one-sector db_name: every setor in the same file
db_name_single(setor) == "b3 " \o "" \o ".db"

\* db_name = f"{base_db_name} {setor}.db", base_db_name = 'b3'
db_name(setor) == "b3 " \o setor \o ".db"

\* base_name, ext = os.path.splitext(db_name); backup_name = f"{base_name} backup{ext}"
backup_name(setor) == "b3 " \o setor \o " backup" \o ".db"

StoreFiles == {db_name(s) : s \in Sectors}
Files == StoreFiles \cup {backup_name(s) : s \in Sectors}

\* the keys of df.groupby('setor'), in sorted order
SetoresOf(df) == {df[i].setor : i \in DOMAIN df}
grouped(df) == SortedKeys({<<Rank(s)>> : s \in SetoresOf(df)})
group_of(df, setor) == SelectSeq(df, LAMBDA r : r.setor = setor)

\* one pass of the for loop with the copy taken after the write
write_store_backup_last(fs, setor, rows, fails) ==
    LET db == db_name(setor)
        created == [fs EXCEPT ![db] = File(@.rows)]
        written == IF fails THEN created ELSE [created EXCEPT ![db] = File(@.rows \o rows)]
    IN  [files |-> IF fs[db].exists
                   THEN [written EXCEPT ![backup_name(setor)] = written[db]]
                   ELSE written,
         raised |-> fails]

\* one pass of the for loop: shutil.copy2 if the file exists, sqlite3.connect and
\* CREATE TABLE IF NOT EXISTS, then to_sql(if_exists='append') and commit; when
\* to_sql raises, its transaction is rolled back and the exception propagates
write_store(fs, setor, rows, fails) ==
    LET db == db_name(setor)
        backed == IF fs[db].exists THEN [fs EXCEPT ![backup_name(setor)] = fs[db]] ELSE fs
        created == [backed EXCEPT ![db] = File(@.rows)]
    IN  IF fails THEN [files |-> created, raised |-> TRUE]
        ELSE [files |-> [created EXCEPT ![db] = File(@.rows \o rows)], raised |-> FALSE]

\* for setor, group in grouped: ... ; an exception leaves the loop for the except clause
RECURSIVE save_groups(_, _, _, _)
save_groups(fs, df, keys, fail) ==
    IF keys = <<>> THEN [files |-> fs, raised |-> FALSE]
    ELSE LET setor == StringOrder[Head(keys)[1]]
             r == write_store(fs, setor, group_of(df, setor), fail = setor)
         IN  IF r.raised THEN r ELSE save_groups(r.files, df, Tail(keys), fail)

\* save_to_db(df): the files afterwards, and whether system.log_error ran
save_to_db(fs, df, fail) ==
    IF df = <<>> THEN [files |-> fs, raised |-> FALSE]
    ELSE save_groups(fs, df, grouped(df), fail)

\* the rows a write batch is drawn from: company A re-files its December
SheetRows ==
    {SheetRow(101, "FINANCEIRO", "A", "3.01", 202012, 100, 1),
     SheetRow(102, "FINANCEIRO", "A", "3.01", 202012, 120, 2),
     SheetRow(201, "SAUDE", "B", "3.01", 202012, 80, 1),
     SheetRow(301, "", "C", "3.01", 202012, 5, 1)}

RouterIdle ==
    /\ stores = [f \in Files |-> NoFile]
    /\ stores_before = [f \in Files |-> NoFile]
    /\ df_saved = <<>>
    /\ failed_setor = NoFailure
    /\ error_logged = FALSE
    /\ calls = 0

(***************************************************************************)
(* get_nsd_data (finsheet_scrap.py and finsheet.py, the same statements):  *)
(* the listing of the filings to scrape.  A row of the merged frame has    *)
(* the columns nsd, company, version, quarter, setor, subsetor; segmento   *)
(* is treated by the code exactly as subsetor is.  version is a string.    *)
(***************************************************************************)
ListingRow(n, c, ver, q, s, ss) ==
    [nsd |-> n, company |-> c, version |-> ver, quarter |-> q, setor |-> s, subsetor |-> ss]

last_order == "ZZZZZZZZZZ"

\* df_merged.loc[df_merged[col] == '', col] = last_order
mask_empty(x) == IF x = "" THEN last_order ELSE x
\* df_sorted.loc[df_sorted[col] == last_order, col] = ''
restore_empty(x) == IF x = last_order THEN "" ELSE x

\* by=['setor', 'subsetor', 'segmento', 'company', 'quarter', 'version']
ListingKey(r) ==
    <<Rank(r.setor), Rank(r.subsetor), Rank(r.company), r.quarter, Rank(r.version)>>

\* lines 62-74: mask the empty categories, sort, restore them
get_nsd_data(merged) ==
    LET masked == [i \in DOMAIN merged |->
                     [merged[i] EXCEPT !.setor = mask_empty(@), !.subsetor = mask_empty(@)]]
        keys == SortedKeys({ListingKey(r) : r \in Range(masked)})
        ordered == Concat([i \in 1..Len(keys) |->
                             SelectSeq(masked, LAMBDA r : ListingKey(r) = keys[i])])
    IN  [i \in DOMAIN ordered |->
           [ordered[i] EXCEPT !.setor = restore_empty(@), !.subsetor = restore_empty(@)]]

\* the rows the merged frame is drawn from, one per (company, quarter)
ListingRows ==
    {ListingRow(101, "A", "1", 202012, "FINANCEIRO", "A"),
     ListingRow(201, "B", "3", 202012, "SAUDE", ""),
     ListingRow(301, "C", "1", 202012, "", ""),
     ListingRow(302, "C", "1", 202103, "", ""),
     ListingRow(401, "D", "1", 202012, "ZZZZZZZZZZ", "B"),
     ListingRow(501, "E", "1", 202012, "ZZZZZZZZZZA", "")}

\* every sequence of at most n distinct elements of U
RECURSIVE SeqsUpTo(_, _)
SeqsUpTo(U, n) ==
    IF n = 0 THEN {<<>>}
    ELSE LET P == SeqsUpTo(U, n - 1)
         IN  P \cup {Append(q, x) : q \in {p \in P : Len(p) = n - 1}, x \in U}

DistinctSeqs(U, n) ==
    {q \in SeqsUpTo(U, n) : \A i, j \in DOMAIN q : q[i] = q[j] => i = j}

ListingIdle ==
    /\ df_merged = <<>>
    /\ df_sorted = <<>>

(***************************************************************************)
(* nsd_scrap.generate_nsd_list and nsd_manager.generate_missing_nsds: NSD  *)
(* discovery.  The nsd table is NoTable while it does not exist, else      *)
(* Table(rows) with the set of its rows (nsd, sent_date); nsd is its       *)
(* INTEGER PRIMARY KEY and sent_date is a day number.                      *)
(***************************************************************************)
NoTable == [exists |-> FALSE, rows |-> {}]
Table(rows) == [exists |-> TRUE, rows |-> rows]
NoResult == 0

NsdRow(n, d) == [nsd |-> n, sent_date |-> d]

\* SELECT nsd FROM nsd ORDER BY nsd
RECURSIVE sorted(_)
sorted(S) == IF S = {} THEN <<>> ELSE <<Min(S)>> \o sorted(S \ {Min(S)})

existing_nsds(table) == sorted({r.nsd : r \in table.rows})

\* list(range(a, b))
range(a, b) == [i \in 1..(b - a) |-> a + i - 1]

\* SELECT nsd, MIN(sent_date), MAX(sent_date) FROM nsd: the bare column nsd comes
\* from a row that holds the minimum or the maximum, SQLite does not say which
BareColumnRows(table) ==
    {r \in table.rows : \/ \A o \in table.rows : r.sent_date <= o.sent_date
                        \/ \A o \in table.rows : o.sent_date <= r.sent_date}

\* set(range(1, max_nsd + 1)) with the range started at 0
full_set_from_zero(max_nsd) == 0..max_nsd

\* set(range(1, max_nsd + 1))
full_set(max_nsd) == 1..max_nsd

\* the test for an empty table removed
not_never(l) == FALSE

\* not existing_nsds
not_(l) == l = <<>>

\* int(items_per_day * days_to_current), items_per_day = last_nsd / days_diff_total
\* if days_diff_total != 0 else 0; on the dates and ids of the model the floating
\* point product truncates to the exact quotient
remaining_items(last, first_date, last_date, now) ==
    LET days_diff_total == last_date - first_date
        days_to_current == now - last_date
    IN  IF days_diff_total # 0 THEN (last * days_to_current) \div days_diff_total ELSE 0

\* the forward range without its last element
nsd_new_range_open(last, remaining) == range(last, last + remaining)

\* list(range(last_nsd, last_nsd + remaining_items + 1))
nsd_new_range(last, remaining) == range(last, last + remaining + 1)

\* generate_nsd_list, with bare the row SQLite takes result[0] from; raised is
\* TRUE for an exception that leaves the function (sqlite3.OperationalError for
\* a missing table, ValueError for max() of an empty list)
generate_nsd_list(table, now, bare) ==
    IF ~table.exists
    THEN [raised |-> TRUE, last |-> NoResult, new |-> <<>>, missing |-> <<>>]
    ELSE IF not_(existing_nsds(table))
    THEN [raised |-> FALSE, last |-> NoResult, new |-> <<>>, missing |-> <<>>]
    ELSE IF table.rows = {}
    THEN [raised |-> TRUE, last |-> NoResult, new |-> <<>>, missing |-> <<>>]
    ELSE LET max_nsd == Max({r.nsd : r \in table.rows})
             first_date == Min({r.sent_date : r \in table.rows})
             last_date == Max({r.sent_date : r \in table.rows})
         IN  [raised |-> FALSE,
              last |-> bare.nsd,
              new |-> nsd_new_range(bare.nsd,
                                    remaining_items(bare.nsd, first_date, last_date, now)),
              missing |-> sorted(full_set(max_nsd) \ {r.nsd : r \in table.rows})]

\* load_all_nsds: SELECT nsd FROM nsd in rowid order, [] when the query raises
load_all_nsds(table) == IF table.exists THEN existing_nsds(table) ELSE <<>>

\* generate_missing_nsds: [] when max() raises on an empty list
generate_missing_nsds(all_nsds) ==
    IF all_nsds = <<>> THEN <<>>
    ELSE sorted(full_set(Max(Range(all_nsds))) \ Range(all_nsds))

DiscoveryIdle ==
    /\ nsd_table = NoTable
    /\ current_date = 0
    /\ last_nsd = NoResult
    /\ nsd_new_values = <<>>
    /\ nsd_missing_values = <<>>
    /\ missing_nsds = <<>>

(***************************************************************************)
(* finsheet_scrape: the scrape loop.  A filing is the number of its row in *)
(* df_nsd_missing (1..size_nsd); all_data holds the filings whose frames   *)
(* were appended since the last save.                                      *)
(***************************************************************************)
BatchSizes == {10, 20, 30, 50}

\* (counter + 1) % int(settings.batch_size/10) == 0 or counter == size_nsd - 1
save_due(n, size, bs) == (n + 1) % (bs \div 10) = 0 \/ n = size - 1

ScrapeIdle ==
    /\ size_nsd = 0
    /\ batch_size = 50
    /\ counter = 0
    /\ all_data = <<>>
    /\ flushed = <<>>

NsdScrapeIdle ==
    /\ nsd_list = <<>>
    /\ nsd_i = 0
    /\ nsd_all_data = <<>>
    /\ nsd_parsed = <<>>
    /\ nsd_passed = <<>>

FilesIdle ==
    /\ db_files = 0
    /\ file_i = 0
    /\ files_outcome = <<>>

FilterIdle ==
    /\ df_nsd = <<>>
    /\ existing_data = <<>>
    /\ df_nsd_missing = <<>>

RunsIdle ==
    /\ runs = 0
    /\ stored_ever = {}

RestIdle == NsdScrapeIdle /\ finsheet_rows = <<>> /\ FilesIdle /\ FilterIdle /\ RunsIdle

IoIdle == RouterIdle /\ ListingIdle /\ DiscoveryIdle /\ ScrapeIdle /\ RestIdle

MathIdle ==
    /\ df_raw = <<>>
    /\ df_math = <<>>
    /\ df_new_lines = <<>>
    /\ df_relevant_lines = <<>>
    /\ unique_new_lines = <<>>
    /\ result_df = <<>>
    /\ df_math_updated = <<>>
    /\ math_db = <<>>

(***************************************************************************)
(* main(), one action per statement                                        *)
(***************************************************************************)
Init ==
    /\ pc = "load_db"
    /\ df_raw = <<>>
    /\ df_math = <<>>
    /\ df_new_lines = <<>>
    /\ df_relevant_lines = <<>>
    /\ unique_new_lines = <<>>
    /\ result_df = <<>>
    /\ df_math_updated = <<>>
    /\ math_db = <<>>
    /\ IoIdle

\* df_raw = load_db(db_file); df_math = load_db(' math.db')
LoadDb ==
    /\ pc = "load_db"
    /\ \E raw \in Frames(RawRows, MaxRaw), math \in Frames(MathRows, MaxMath) :
          /\ df_raw' = raw
          /\ df_math' = math
          /\ math_db' = math
    /\ pc' = "find_new_lines"
    /\ UNCHANGED <<df_new_lines, df_relevant_lines, unique_new_lines, result_df,
                   df_math_updated>>
    /\ UNCHANGED ioVars

\* df_new_lines = find_new_lines(df_raw, df_math); if not df_new_lines.empty: ...
FindNewLines ==
    /\ pc = "find_new_lines"
    /\ df_new_lines' = find_new_lines(df_raw, df_math)
    /\ pc' = IF df_new_lines' = <<>> THEN "done" ELSE "get_relevant_lines"
    /\ UNCHANGED <<df_raw, df_math, df_relevant_lines, unique_new_lines, result_df,
                   df_math_updated, math_db>>
    /\ UNCHANGED ioVars

\* df_relevant_lines, unique_new_lines = get_relevant_lines(df_raw, df_new_lines)
GetRelevantLines ==
    /\ pc = "get_relevant_lines"
    /\ df_relevant_lines' = get_relevant_lines(df_raw, df_new_lines)[1]
    /\ unique_new_lines' = get_relevant_lines(df_raw, df_new_lines)[2]
    /\ pc' = "group_by_conta_prefix"
    /\ UNCHANGED <<df_raw, df_math, df_new_lines, result_df, df_math_updated, math_db>>
    /\ UNCHANGED ioVars

\* df_relevant_lines = group_by_conta_prefix(df_relevant_lines)
GroupByContaPrefix ==
    /\ pc = "group_by_conta_prefix"
    /\ result_df' = group_by_conta_prefix(df_relevant_lines)
    /\ pc' = "update_df"
    /\ UNCHANGED <<df_raw, df_math, df_new_lines, df_relevant_lines, unique_new_lines,
                   df_math_updated, math_db>>
    /\ UNCHANGED ioVars

\* df_math = update_df(df_math, df_relevant_lines, unique_new_lines)
UpdateDf ==
    /\ pc = "update_df"
    /\ df_math_updated' = update_df(df_math, result_df, unique_new_lines)
    /\ pc' = "save_db"
    /\ UNCHANGED <<df_raw, df_math, df_new_lines, df_relevant_lines, unique_new_lines,
                   result_df, math_db>>
    /\ UNCHANGED ioVars

\* df_math = save_db(df_math, db_file): the 'finsheet' table is replaced
SaveDb ==
    /\ pc = "save_db"
    /\ math_db' = df_math_updated
    /\ pc' = "done"
    /\ UNCHANGED <<df_raw, df_math, df_new_lines, df_relevant_lines, unique_new_lines,
                   result_df, df_math_updated>>
    /\ UNCHANGED ioVars

Next == LoadDb \/ FindNewLines \/ GetRelevantLines \/ GroupByContaPrefix \/ UpdateDf \/ SaveDb

Spec == Init /\ [][Next]_vars

(***************************************************************************)
(* The delta normalizer alone: a batch drawn from DeltaRows is handed to   *)
(* group_by_conta_prefix.                                                  *)
(***************************************************************************)
InitDelta ==
    /\ pc = "group_by_conta_prefix"
    /\ df_relevant_lines \in Frames(DeltaRows, MaxBatch)
    /\ df_raw = <<>>
    /\ df_math = <<>>
    /\ df_new_lines = <<>>
    /\ unique_new_lines = <<>>
    /\ result_df = <<>>
    /\ df_math_updated = <<>>
    /\ math_db = <<>>
    /\ IoIdle

NextDelta == GroupByContaPrefix

SpecDelta == InitDelta /\ [][NextDelta]_vars

(***************************************************************************)
(* The delta normalizer on a batch with missing values: valor is NaN where *)
(* the scraped cell could not be read as a number (pd.to_numeric with      *)
(* errors='coerce' on the way in, NULL in the REAL column of the store).   *)
(***************************************************************************)
MaxMissing == 4

MissingRows ==
    {Filed("A", "3.01", 202003, 1, NaN), Filed("A", "3.01", 202006, 1, 5),
     Filed("A", "3.01", 202012, 1, 30),  Filed("A", "3.01", 202012, 2, NaN),
     Filed("A", "6.01", 202003, 1, 10),  Filed("A", "6.01", 202006, 1, NaN),
     Filed("A", "6.01", 202009, 1, 25),  Filed("A", "6.01", 202012, 1, 40),
     Filed("B", "3.01", 202012, 1, 80),  Filed("A", "1.01", 202003, 1, NaN)}

InitDeltaMissing ==
    /\ pc = "group_by_conta_prefix"
    /\ df_relevant_lines \in Frames(MissingRows, MaxMissing)
    /\ df_raw = <<>>
    /\ df_math = <<>>
    /\ df_new_lines = <<>>
    /\ unique_new_lines = <<>>
    /\ result_df = <<>>
    /\ df_math_updated = <<>>
    /\ math_db = <<>>
    /\ IoIdle

SpecDeltaMissing == InitDeltaMissing /\ [][NextDelta]_vars

(***************************************************************************)
(* The sector store router: save_to_db is called with one write batch      *)
(* after another; in a call the to_sql of at most one setor raises.        *)
(***************************************************************************)
MaxCalls == 2
MaxSheet == 2

\* the write batches: at most MaxSheet rows, in key order or the reverse
SheetBatches == Frames(SheetRows, MaxSheet)

InitRouter ==
    /\ pc = "save_to_db"
    /\ MathIdle
    /\ IoIdle

SaveToDb ==
    /\ pc = "save_to_db"
    /\ calls < MaxCalls
    /\ \E df \in SheetBatches, fail \in Sectors \cup {NoFailure} :
          /\ fail \in SetoresOf(df) \cup {NoFailure}
          /\ LET r == save_to_db(stores, df, fail)
             IN  /\ stores' = r.files
                 /\ error_logged' = r.raised
          /\ df_saved' = df
          /\ failed_setor' = fail
    /\ stores_before' = stores
    /\ calls' = calls + 1
    /\ UNCHANGED <<pc, mathVars, listingVars, discoveryVars, scrapeVars, restVars>>

NextRouter == SaveToDb

SpecRouter == InitRouter /\ [][NextRouter]_vars

(***************************************************************************)
(* get_nsd_data on a merged frame drawn from ListingRows.                  *)
(***************************************************************************)
MaxListing == 3

InitListing ==
    /\ pc = "get_nsd_data"
    /\ MathIdle
    /\ RouterIdle /\ DiscoveryIdle /\ ScrapeIdle /\ RestIdle
    /\ df_merged \in DistinctSeqs(ListingRows, MaxListing)
    /\ df_sorted = <<>>

GetNsdData ==
    /\ pc = "get_nsd_data"
    /\ df_sorted' = get_nsd_data(df_merged)
    /\ pc' = "listed"
    /\ UNCHANGED <<df_merged, mathVars, routerVars, discoveryVars, scrapeVars, restVars>>

NextListing == GetNsdData

SpecListing == InitListing /\ [][NextListing]_vars

(***************************************************************************)
(* NSD discovery on an nsd table of at most MaxRecords rows with ids in    *)
(* 1..MaxNsd (or with the ids 1, 2, 4, 6) and sent dates in 0..MaxDay,     *)
(* run up to MaxAhead days after the last of these dates.                  *)
(***************************************************************************)
MaxNsd == 6
MaxDay == 2
MaxRecords == 3
MaxAhead == 1

\* the sets of known ids: the small ones, and the one of the gap example
NsdIdSets == SubsetsUpTo(1..MaxNsd, MaxRecords) \cup {{1, 2, 4, 6}}

NsdTables ==
    {NoTable} \cup
    UNION {{Table({NsdRow(n, d[n]) : n \in S}) : d \in [S -> 0..MaxDay]} : S \in NsdIdSets}

InitDiscovery ==
    /\ pc = "discover"
    /\ MathIdle
    /\ RouterIdle /\ ListingIdle /\ ScrapeIdle /\ RestIdle
    /\ nsd_table \in NsdTables
    /\ current_date \in MaxDay..(MaxDay + MaxAhead)
    /\ last_nsd = NoResult
    /\ nsd_new_values = <<>>
    /\ nsd_missing_values = <<>>
    /\ missing_nsds = <<>>

\* nsd_new_values, nsd_missing_values = generate_nsd_list(db_name)
GenerateNsdList ==
    /\ pc = "discover"
    /\ \E bare \in (IF nsd_table.rows = {} THEN {NsdRow(NoResult, 0)}
                    ELSE BareColumnRows(nsd_table)) :
          LET r == generate_nsd_list(nsd_table, current_date, bare)
          IN  /\ last_nsd' = r.last
              /\ nsd_new_values' = r.new
              /\ nsd_missing_values' = r.missing
              /\ pc' = IF r.raised THEN "generate_nsd_list raised"
                       ELSE "generate_nsd_list returned"
    /\ UNCHANGED <<nsd_table, current_date, missing_nsds>>
    /\ UNCHANGED <<mathVars, routerVars, listingVars, scrapeVars, restVars>>

\* negative_nsds = generate_missing_nsds(load_all_nsds(db_name))
GenerateMissingNsds ==
    /\ pc = "discover"
    /\ missing_nsds' = generate_missing_nsds(load_all_nsds(nsd_table))
    /\ pc' = "generate_missing_nsds returned"
    /\ UNCHANGED <<nsd_table, current_date, last_nsd, nsd_new_values, nsd_missing_values>>
    /\ UNCHANGED <<mathVars, routerVars, listingVars, scrapeVars, restVars>>

NextDiscovery == GenerateNsdList \/ GenerateMissingNsds

SpecDiscovery == InitDiscovery /\ [][NextDiscovery]_vars

(***************************************************************************)
(* finsheet_scrape on a list of at most MaxFilings filings; a filing       *)
(* yields frames, or none when every scrape of it returned None.           *)
(***************************************************************************)
MaxFilings == 6

InitScrape ==
    /\ pc = "finsheet_scrape"
    /\ MathIdle
    /\ RouterIdle /\ ListingIdle /\ DiscoveryIdle /\ RestIdle
    /\ size_nsd \in 0..MaxFilings
    /\ batch_size \in BatchSizes
    /\ counter = 0
    /\ all_data = <<>>
    /\ flushed = <<>>

\* one pass of the for loop: counter += 1, scrape, append, and save when due;
\* pd.concat raises ValueError on an empty all_data
ScrapeFiling ==
    /\ pc = "finsheet_scrape"
    /\ counter < size_nsd
    /\ counter' = counter + 1
    /\ \E scraped \in BOOLEAN :
          LET appended == IF scraped THEN Append(all_data, counter') ELSE all_data
          IN  IF save_due(counter', size_nsd, batch_size)
              THEN IF appended = <<>>
                   THEN /\ pc' = "concat raised"
                        /\ UNCHANGED <<all_data, flushed>>
                   ELSE /\ flushed' = flushed \o appended
                        /\ all_data' = <<>>
                        /\ pc' = pc
              ELSE /\ all_data' = appended
                   /\ UNCHANGED <<flushed, pc>>
    /\ UNCHANGED <<size_nsd, batch_size>>
    /\ UNCHANGED <<mathVars, routerVars, listingVars, discoveryVars, restVars>>

\* the loop is over: return finsheet, unbound when save_to_db was never reached
ScrapeReturn ==
    /\ pc = "finsheet_scrape"
    /\ counter = size_nsd
    /\ pc' = IF flushed = <<>> THEN "finsheet unbound" ELSE "returned"
    /\ UNCHANGED <<mathVars, ioVars>>

NextScrape == ScrapeFiling \/ ScrapeReturn

SpecScrape == InitScrape /\ [][NextScrape]_vars

(***************************************************************************)
(* nsd_scrap.nsd_scrape, parse_data and nsd_scrap.save_to_db.  A page is   *)
(* what the site answers for one candidate number: unreadable when the     *)
(* try block of parse_data raises before data['sent_date'] is set, else    *)
(* the company name and the sent date it shows (company "" when the page   *)
(* has no #lblNomeCompanhia).  A record keeps, of the eleven columns, the  *)
(* primary key nsd, company and sent_date.                                 *)
(***************************************************************************)
NsdDoc(n, c, d) == [nsd |-> n, company |-> c, sent_date |-> d]

\* what parse_data returns when 'sent_date' is not in data
None == [nsd |-> NoResult, company |-> "None", sent_date |-> NoResult]

Unreadable == [readable |-> FALSE, company |-> "", sent_date |-> 0]
Page(c, d) == [readable |-> TRUE, company |-> c, sent_date |-> d]

parse_data(html_content, i) ==
    IF html_content.readable
    THEN NsdDoc(i, html_content.company, html_content.sent_date)
    ELSE None

\* INSERT ... ON CONFLICT(nsd) DO UPDATE SET every column = excluded.column
upsert(rows, item) == {r \in rows : r.nsd # item.nsd} \cup {item}

RECURSIVE upsert_all(_, _)
upsert_all(rows, data) ==
    IF data = <<>> THEN rows ELSE upsert_all(upsert(rows, Head(data)), Tail(data))

\* nsd_scrap.save_to_db on the file that holds the nsd table: nothing on an
\* empty list, else CREATE TABLE IF NOT EXISTS and one upsert per item
nsd_save_to_db(data, table) ==
    IF data = <<>> THEN table ELSE Table(upsert_all(table.rows, data))

\* (i + 1) % settings.batch_size == 0 or i == size - 1
nsd_save_due(i, size, bs) == (i + 1) % bs = 0 \/ i = size - 1

(***************************************************************************)
(* nsd_scrape on the candidates 1..n, n <= MaxCandidates, against an nsd   *)
(* table that is absent or holds document 1; sent dates are days.          *)
(***************************************************************************)
MaxCandidates == 3
MaxNsdBatch == 2
MaxSent == 2

Pages == {Unreadable} \cup {Page(c, d) : c \in {"", "A", "B"}, d \in 0..MaxSent}

InitNsdScrape ==
    /\ pc = "nsd_scrape"
    /\ MathIdle
    /\ RouterIdle /\ ListingIdle
    /\ nsd_table \in {NoTable, Table({NsdDoc(1, "A", 1)})}
    /\ current_date = 0
    /\ last_nsd = NoResult
    /\ nsd_new_values = <<>>
    /\ nsd_missing_values = <<>>
    /\ missing_nsds = <<>>
    /\ size_nsd = 0
    /\ batch_size \in 1..MaxNsdBatch
    /\ counter = 0
    /\ all_data = <<>>
    /\ flushed = <<>>
    /\ \E n \in 0..MaxCandidates : nsd_list = [k \in 1..n |-> k]
    /\ nsd_i = 0
    /\ nsd_all_data = <<>>
    /\ nsd_parsed = <<>>
    /\ nsd_passed = <<>>
    /\ finsheet_rows = <<>> /\ FilesIdle /\ FilterIdle /\ RunsIdle

\* one pass of the for loop.  data['company'] on None raises TypeError, which
\* the except clause around the whole loop catches: nsd_scrape logs and returns
NsdScrapeCandidate ==
    /\ pc = "nsd_scrape"
    /\ nsd_i < Len(nsd_list)
    /\ nsd_i' = nsd_i + 1
    /\ \E page \in Pages :
          LET data == parse_data(page, nsd_list[nsd_i + 1])
              appended == IF data.company # "" THEN Append(nsd_all_data, data)
                          ELSE nsd_all_data
          IN  IF data = None
              THEN /\ pc' = "nsd_scrape raised"
                   /\ UNCHANGED <<nsd_all_data, nsd_parsed, nsd_passed, nsd_table>>
              ELSE /\ nsd_parsed' = IF data.company # "" THEN Append(nsd_parsed, data)
                                    ELSE nsd_parsed
                   /\ IF nsd_save_due(nsd_i, Len(nsd_list), batch_size)
                      THEN /\ nsd_passed' = nsd_passed \o appended
                           /\ nsd_table' = nsd_save_to_db(appended, nsd_table)
                           /\ nsd_all_data' = <<>>
                      ELSE /\ nsd_all_data' = appended
                           /\ UNCHANGED <<nsd_passed, nsd_table>>
                   /\ pc' = pc
    /\ UNCHANGED <<nsd_list, current_date, last_nsd, nsd_new_values, nsd_missing_values,
                   missing_nsds>>
    /\ UNCHANGED <<mathVars, routerVars, listingVars, scrapeVars, finsheet_rows, db_files,
                   file_i, files_outcome, df_nsd, existing_data, df_nsd_missing, runs,
                   stored_ever>>

\* after the loop: save_to_db(all_data, db_name), then return
NsdScrapeReturn ==
    /\ pc = "nsd_scrape"
    /\ nsd_i = Len(nsd_list)
    /\ nsd_passed' = nsd_passed \o nsd_all_data
    /\ nsd_table' = nsd_save_to_db(nsd_all_data, nsd_table)
    /\ pc' = "nsd_scrape returned"
    /\ UNCHANGED <<nsd_list, nsd_i, nsd_all_data, nsd_parsed, current_date, last_nsd,
                   nsd_new_values, nsd_missing_values, missing_nsds>>
    /\ UNCHANGED <<mathVars, routerVars, listingVars, scrapeVars, finsheet_rows, db_files,
                   file_i, files_outcome, df_nsd, existing_data, df_nsd_missing, runs,
                   stored_ever>>

NextNsdScrape == NsdScrapeCandidate \/ NsdScrapeReturn

SpecNsdScrape == InitNsdScrape /\ [][NextNsdScrape]_vars

(***************************************************************************)
(* finsheet_math.load_db.  A row of the finsheet table holds quarter and   *)
(* version as TEXT; load_db turns quarter into a date (the integer yyyymm, *)
(* NaT when the text is no date) and version into an integer, then filters *)
(* the rows.                                                               *)
(***************************************************************************)
NaT == 0

\* pd.to_datetime(df['quarter'], errors='coerce')
to_datetime(text) ==
    CASE text = "2020-09-30" -> 202009
      [] text = "2020-12-31" -> 202012
      [] OTHER -> NaT

\* pd.to_numeric(df['version'], errors='coerce').fillna(-1).astype(int)
to_numeric(text) ==
    CASE text = "1" -> 1
      [] text = "2" -> 2
      [] OTHER -> -1

\* str.strip()
strip(text) == IF text = " " THEN "" ELSE text

\* settings.cols_order, the columns the loop of load_db goes through
cols == <<"company_name", "tipo", "conta", "quarter">>

\* df = df[df[col].str.strip() != ""]; on the quarter column, which holds dates
\* by now, .str raises AttributeError and the except clause passes
drop_empty(df, col) ==
    IF col = "quarter" THEN df
    ELSE SelectSeq(df, LAMBDA r : strip(r[col]) # "")

RECURSIVE drop_empty_all(_, _)
drop_empty_all(df, columns) ==
    IF columns = <<>> THEN df
    ELSE drop_empty_all(drop_empty(df, Head(columns)), Tail(columns))

load_db(rows) ==
    LET df == [i \in 1..Len(rows) |->
                 [rows[i] EXCEPT !.quarter = to_datetime(rows[i].quarter),
                                 !.version = to_numeric(rows[i].version)]]
    IN  SelectSeq(drop_empty_all(df, cols), LAMBDA r : strip(r.company_name) # "")

\* a stored row of company c for account 3.01, quarter and version as text
Stored(n, c, a, q, ver) == Row(n, c, "T", a, q, 10 * n, ver)

StoredRows ==
    {Stored(1, "A", "3.01", "2020-12-31", "1"), Stored(2, "A", "3.01", "", "1"),
     Stored(3, "A", "3.01", "n/a", "2"),        Stored(4, "", "3.01", "2020-12-31", "1"),
     Stored(5, " ", "3.01", "2020-09-30", "1"), Stored(6, "A", "3.01", "2020-09-30", ""),
     Stored(7, "A", "", "2020-12-31", "1")}

MaxStored == 3

InitLoad ==
    /\ pc = "load_db"
    /\ MathIdle
    /\ RouterIdle /\ ListingIdle /\ DiscoveryIdle /\ ScrapeIdle
    /\ NsdScrapeIdle /\ FilesIdle /\ FilterIdle /\ RunsIdle
    /\ finsheet_rows \in DistinctSeqs(StoredRows, MaxStored)

\* df_raw = load_db(db_file)
LoadDbFile ==
    /\ pc = "load_db"
    /\ df_raw' = load_db(finsheet_rows)
    /\ pc' = "loaded"
    /\ UNCHANGED <<df_math, df_new_lines, df_relevant_lines, unique_new_lines, result_df,
                   df_math_updated, math_db>>
    /\ UNCHANGED ioVars

NextLoad == LoadDbFile

SpecLoad == InitLoad /\ [][NextLoad]_vars

(***************************************************************************)
(* finsheet_math.main over the sector store files of the folder.  One      *)
(* action is one pass of the for loop, on a file whose two stores are      *)
(* drawn from FileStores.  A pass may meet a failure inside                *)
(* get_relevant_lines (its except clause logs and returns None, and the    *)
(* tuple assignment in main then raises TypeError) or inside save_db       *)
(* (its except clause logs and returns None).                              *)
(***************************************************************************)
MaxFiles == 3

FailurePoints == {NoFailure, "get_relevant_lines", "save_db"}

\* <<as-reported store, normalized store>> of a sector
FileStores ==
    {<<raw, math>> :
        raw \in {<<Filed("A", "3.01", 202012, 1, 100)>>,
                 <<Filed("A", "3.01", 202009, 1, 8), Filed("A", "3.01", 202012, 1, 100)>>},
        math \in {<<>>, <<Filed("A", "3.01", 202012, 1, 92)>>,
                  <<Filed("A", "3.01", 202012, 2, 150)>>}}

InitFiles ==
    /\ pc = "main"
    /\ MathIdle
    /\ RouterIdle /\ ListingIdle /\ DiscoveryIdle /\ ScrapeIdle
    /\ NsdScrapeIdle /\ FilterIdle /\ RunsIdle
    /\ finsheet_rows = <<>>
    /\ db_files \in 0..MaxFiles
    /\ file_i = 0
    /\ files_outcome = <<>>

\* one pass of 'for i, db_file in enumerate(valid_db_files)'
ProcessFile ==
    /\ pc = "main"
    /\ file_i < db_files
    /\ file_i' = file_i + 1
    /\ \E store \in FileStores, fail \in FailurePoints :
          LET new_lines == find_new_lines(store[1], store[2])
              relevant == get_relevant_lines(store[1], new_lines)
              updated == update_df(store[2], group_by_conta_prefix(relevant[1]), relevant[2])
          IN  /\ df_raw' = store[1]
              /\ df_math' = store[2]
              /\ df_new_lines' = new_lines
              /\ IF new_lines = <<>>
                 THEN /\ files_outcome' = Append(files_outcome, "nothing new")
                      /\ pc' = pc
                      /\ UNCHANGED <<df_math_updated, math_db>>
                 ELSE IF fail = "get_relevant_lines"
                 THEN /\ files_outcome' = Append(files_outcome, "raised")
                      /\ pc' = "main raised"
                      /\ UNCHANGED <<df_math_updated, math_db>>
                 ELSE IF fail = "save_db"
                 THEN /\ files_outcome' = Append(files_outcome, "save_db failed")
                      /\ pc' = pc
                      /\ df_math_updated' = updated
                      /\ UNCHANGED math_db
                 ELSE /\ files_outcome' = Append(files_outcome, "saved")
                      /\ pc' = pc
                      /\ df_math_updated' = updated
                      /\ math_db' = updated
    /\ UNCHANGED <<df_relevant_lines, unique_new_lines, result_df, db_files>>
    /\ UNCHANGED <<routerVars, listingVars, discoveryVars, scrapeVars, nsd_list, nsd_i,
                   nsd_all_data, nsd_parsed, nsd_passed, finsheet_rows, df_nsd,
                   existing_data, df_nsd_missing, runs, stored_ever>>

\* print('done')
MainReturn ==
    /\ pc = "main"
    /\ file_i = db_files
    /\ pc' = "main returned"
    /\ UNCHANGED <<mathVars, ioVars>>

NextFiles == ProcessFile \/ MainReturn

SpecFiles == InitFiles /\ [][NextFiles]_vars

(***************************************************************************)
(* finsheet_scrap.filter_nsd_data.  A filing of df_nsd and a row of        *)
(* load_existing_data() keep nsd, company_name, quarter and version; the   *)
(* version is the string astype(str) makes of it, and strings are compared *)
(* as Python compares them, by Rank.                                       *)
(***************************************************************************)
Filing(n, c, q, ver) == [nsd |-> n, company_name |-> c, quarter |-> q, version |-> ver]

\* existing_data.groupby(['company_name', 'quarter'])['version'] for the key of r
versions_existing(existing, r) ==
    {e.version : e \in {x \in Range(existing) :
                           x.company_name = r.company_name /\ x.quarter = r.quarter}}

\* .max() of a column of strings
max_str(S) == CHOOSE v \in S : \A w \in S : Rank(w) <= Rank(v)

\* merged['version'] > merged['max_version_existing']
version_gt(a, b) == Rank(a) > Rank(b)

filter_nsd_data(nsd, existing) ==
    SelectSeq(nsd, LAMBDA r :
        \/ versions_existing(existing, r) = {}
        \/ version_gt(r.version, max_str(versions_existing(existing, r))))

MaxListed == 2
MaxExisting == 2

ListedFilings ==
    {Filing(11, "A", 202012, "1"), Filing(12, "A", 202012, "2"), Filing(19, "A", 202012, "9"),
     Filing(20, "A", 202012, "10"), Filing(31, "B", 202012, "1")}

ExistingFilings ==
    {Filing(11, "A", 202012, "1"), Filing(19, "A", 202012, "9"),
     Filing(20, "A", 202012, "10"), Filing(31, "B", 202012, "1")}

InitFilter ==
    /\ pc = "filter_nsd_data"
    /\ MathIdle
    /\ RouterIdle /\ ListingIdle /\ DiscoveryIdle /\ ScrapeIdle
    /\ NsdScrapeIdle /\ FilesIdle /\ RunsIdle
    /\ finsheet_rows = <<>>
    /\ df_nsd \in DistinctSeqs(ListedFilings, MaxListed)
    /\ existing_data \in DistinctSeqs(ExistingFilings, MaxExisting)
    /\ df_nsd_missing = <<>>

\* df_nsd_missing = filter_nsd_data(df_nsd)
FilterNsdData ==
    /\ pc = "filter_nsd_data"
    /\ df_nsd_missing' = filter_nsd_data(df_nsd, existing_data)
    /\ pc' = "filtered"
    /\ UNCHANGED <<df_nsd, existing_data>>
    /\ UNCHANGED <<mathVars, routerVars, listingVars, discoveryVars, scrapeVars,
                   nsd_list, nsd_i, nsd_all_data, nsd_parsed, nsd_passed, finsheet_rows,
                   db_files, file_i, files_outcome, runs, stored_ever>>

NextFilter == FilterNsdData

SpecFilter == InitFilter /\ [][NextFilter]_vars

(***************************************************************************)
(* Successive runs of finsheet_math.main on one sector: each run loads the *)
(* two stores, reconciles them and, when there is something new, saves the *)
(* normalized store; between runs the scraper may add a row to the         *)
(* as-reported store.  df_math is the normalized store as the last run     *)
(* loaded it, unique_new_lines the year-groups that run re-normalized.     *)
(***************************************************************************)
MaxRuns == 2
MaxRunRaw == 2
MaxRunMath == 2

\* rows the normalized store may hold before the first run
RunMathRows == MathRows \cup {Filed("A", "3.01", 202009, 2, 9)}

\* the (cols_order key, version) pairs of the rows of a frame
versions_of(df) == {<<cols_order(r), r.version>> : r \in Range(df)}

InitRuns ==
    /\ pc = "main"
    /\ \E S \in SubsetsUpTo(RawRows, MaxRunRaw) : df_raw = InOrder(S)
    /\ \E S \in SubsetsUpTo(RunMathRows, MaxRunMath) : math_db = InOrder(S)
    /\ df_math = <<>>
    /\ df_new_lines = <<>>
    /\ df_relevant_lines = <<>>
    /\ unique_new_lines = <<>>
    /\ result_df = <<>>
    /\ df_math_updated = <<>>
    /\ RouterIdle /\ ListingIdle /\ DiscoveryIdle /\ ScrapeIdle
    /\ NsdScrapeIdle /\ FilesIdle /\ FilterIdle
    /\ finsheet_rows = <<>>
    /\ runs = 0
    /\ stored_ever = versions_of(math_db)

\* one run of main() on the sector
ReconcileRun ==
    /\ pc \in {"main", "ran"}
    /\ runs < MaxRuns
    /\ runs' = runs + 1
    /\ LET new_lines == find_new_lines(df_raw, math_db)
           relevant == get_relevant_lines(df_raw, new_lines)
           updated == reconcile(df_raw, math_db)
       IN  /\ df_math' = math_db
           /\ df_new_lines' = new_lines
           /\ unique_new_lines' = IF new_lines = <<>> THEN <<>> ELSE relevant[2]
           /\ math_db' = updated
           /\ stored_ever' = stored_ever \cup versions_of(updated)
    /\ pc' = "ran"
    /\ UNCHANGED <<df_raw, df_relevant_lines, result_df, df_math_updated>>
    /\ UNCHANGED <<routerVars, listingVars, discoveryVars, scrapeVars, nsd_list, nsd_i,
                   nsd_all_data, nsd_parsed, nsd_passed, finsheet_rows, db_files, file_i,
                   files_outcome, df_nsd, existing_data, df_nsd_missing>>

\* between two runs finsheet_scrap.save_to_db adds a filed row to the sector store
RawStoreGrows ==
    /\ pc \in {"main", "ran"}
    /\ runs < MaxRuns
    /\ Len(df_raw) < MaxRunRaw
    /\ \E r \in RawRows \ Range(df_raw) : df_raw' = Append(df_raw, r)
    /\ pc' = "main"
    /\ UNCHANGED <<df_math, df_new_lines, df_relevant_lines, unique_new_lines, result_df,
                   df_math_updated, math_db>>
    /\ UNCHANGED ioVars

NextRuns == ReconcileRun \/ RawStoreGrows

SpecRuns == InitRuns /\ [][NextRuns]_vars

(***************************************************************************)
(* Vocabulary of the claims                                                *)
(***************************************************************************)
\* group_by_conta_prefix has returned
Normalized == pc = "update_df"

YearGroups(df) == {YearKey(r) : r \in Range(df)}
GroupIn(df, g) == SelectSeq(df, LAMBDA r : YearKey(r) = g)
FamilyOf(g) == FirstChar(g[2])
FamilyRows(df, p) == SelectSeq(df, LAMBDA r : FirstChar(r.conta) = p)

OneRowPerQuarter(rows) ==
    \A i, j \in 1..Len(rows) : rows[i].quarter = rows[j].quarter => i = j

\* the value a year-group reports for a month, 0 when the quarter is absent
QuarterValue(rows, m) ==
    IF \E i \in 1..Len(rows) : Month(rows[i].quarter) = m
    THEN rows[CHOOSE i \in 1..Len(rows) : Month(rows[i].quarter) = m].valor
    ELSE 0

\* the largest value among the rows of a month, 0 when there is none
MonthMax(rows, m) ==
    IF \E i \in 1..Len(rows) : Month(rows[i].quarter) = m
    THEN Max({rows[i].valor : i \in {j \in 1..Len(rows) : Month(rows[j].quarter) = m}})
    ELSE 0

IsFirstOfMonth(rows, i) ==
    \A j \in 1..(i - 1) : Month(rows[j].quarter) # Month(rows[i].quarter)

\* the sum of the values of the quarters of the year before month m
EarlierSum(rows, m) ==
    (IF m > 3 THEN QuarterValue(rows, 3) ELSE 0)
    + (IF m > 6 THEN QuarterValue(rows, 6) ELSE 0)
    + (IF m > 9 THEN QuarterValue(rows, 9) ELSE 0)

(***************************************************************************)
(* C1: delta normalization never mixes rows across year-groups: the rows   *)
(* of each year-group come out of group_by_conta_prefix as they would had  *)
(* the batch held that year-group alone.                                   *)
(***************************************************************************)
C1_NoMixingAcrossYearGroups ==
    Normalized =>
        \A g \in YearGroups(df_relevant_lines) :
            GroupIn(result_df, g) = group_by_conta_prefix(GroupIn(df_relevant_lines, g))

(***************************************************************************)
(* C2: for every year-group of a last-quarter family (one row per          *)
(* quarter), December comes out as December - (September + June + March),  *)
(* an absent quarter counting 0, and March, June, September come out       *)
(* unchanged.                                                              *)
(***************************************************************************)
C2_LastQuarterDecember ==
    Normalized =>
        \A g \in YearGroups(df_relevant_lines) :
            LET in == GroupIn(df_relevant_lines, g)
                out == GroupIn(result_df, g)
            IN  (FamilyOf(g) \in last_quarters /\ OneRowPerQuarter(in)) =>
                    /\ Len(out) = Len(in)
                    /\ \A i \in 1..Len(in) :
                          out[i].valor =
                              IF Month(in[i].quarter) = 12
                              THEN in[i].valor - EarlierSum(in, 12)
                              ELSE in[i].valor

(***************************************************************************)
(* C3 as stated: for a year-group of an all-quarters family (here in the   *)
(* most favourable case: one row per quarter, and no other row of its      *)
(* family in the batch) every quarter comes out as its original value      *)
(* minus the sum of the ORIGINAL values of the earlier quarters.           *)
(***************************************************************************)
C3_OriginalSnapshotSums ==
    Normalized =>
        \A g \in YearGroups(df_relevant_lines) :
            LET in == GroupIn(df_relevant_lines, g)
                out == GroupIn(result_df, g)
            IN  (/\ FamilyOf(g) \in all_quarters
                 /\ OneRowPerQuarter(in)
                 /\ FamilyRows(df_relevant_lines, FamilyOf(g)) = in) =>
                    /\ Len(out) = Len(in)
                    /\ \A i \in 1..Len(in) :
                          out[i].valor = in[i].valor - EarlierSum(in, Month(in[i].quarter))

(***************************************************************************)
(* C3 as amended: for every group of an all-quarters family handed to      *)
(* b3_math, with the four per-month maxima read before any write, the      *)
(* first row of March gets the March maximum, and the first row of June,   *)
(* September, December gets its month's maximum minus the maximum of the   *)
(* quarter just before it (the subtractions run on the already adjusted    *)
(* values, which telescopes to this); every other row is unchanged.        *)
(***************************************************************************)
PreviousQuarter(m) == m - 3

C3_SequentialDifferences ==
    Normalized =>
        \A p \in all_quarters :
            LET in == FamilyRows(df_relevant_lines, p)
                out == FamilyRows(result_df, p)
            IN  /\ Len(out) = Len(in)
                /\ \A i \in 1..Len(in) :
                      out[i] =
                          IF IsFirstOfMonth(in, i)
                          THEN [in[i] EXCEPT !.valor =
                                   MonthMax(in, Month(in[i].quarter))
                                   - MonthMax(in, PreviousQuarter(Month(in[i].quarter)))]
                          ELSE in[i]

\* a full year of an all-quarters family went through, and September came out as
\* September - June, which is not September - (June + March)
C3_Witness ==
    /\ Normalized
    /\ \E p \in all_quarters :
          LET in == FamilyRows(df_relevant_lines, p)
              out == FamilyRows(result_df, p)
          IN  /\ \A m \in {3, 6, 9, 12} : MonthMax(in, m) > 0
              /\ \E i \in 1..Len(in) :
                    /\ Month(in[i].quarter) = 9
                    /\ out[i].valor = MonthMax(in, 9) - MonthMax(in, 6)
                    /\ out[i].valor # MonthMax(in, 9) - (MonthMax(in, 6) + MonthMax(in, 3))

(***************************************************************************)
(* C4: a year-group of an all-quarters family that reports March=10,       *)
(* June=18, September=25, December=40 comes out as March=10, June=8,       *)
(* September=7, December=15.                                               *)
(***************************************************************************)
C4_AllQuartersExample ==
    Normalized =>
        \A g \in YearGroups(df_relevant_lines) :
            LET in == GroupIn(df_relevant_lines, g)
                out == GroupIn(result_df, g)
            IN  (/\ FamilyOf(g) \in all_quarters
                 /\ OneRowPerQuarter(in)
                 /\ Len(in) = 4
                 /\ QuarterValue(in, 3) = 10 /\ QuarterValue(in, 6) = 18
                 /\ QuarterValue(in, 9) = 25 /\ QuarterValue(in, 12) = 40) =>
                    /\ Len(out) = 4
                    /\ QuarterValue(out, 3) = 10 /\ QuarterValue(out, 6) = 8
                    /\ QuarterValue(out, 9) = 7 /\ QuarterValue(out, 12) = 15

(***************************************************************************)
(* Vocabulary of the reconciliation claims.  In main() the existing rows   *)
(* are df_raw and the candidates are df_math: find_new_lines(df_raw,       *)
(* df_math) binds df_existing = df_raw, df_new = df_math.                  *)
(***************************************************************************)
\* find_new_lines has returned
Compared == pc \notin {"load_db", "find_new_lines"}
\* get_relevant_lines has returned
Reconciled == Compared /\ df_new_lines # <<>> /\ pc # "get_relevant_lines"
\* main() is through with the file
Done == pc = "done"

SameKey(a, b) ==
    /\ a.company_name = b.company_name /\ a.conta = b.conta
    /\ a.tipo = b.tipo /\ a.quarter = b.quarter

\* the merged row m is the candidate c
IsCandidate(m, c) ==
    /\ SameKey(m, c)
    /\ m.nsd_new = c.nsd /\ m.valor_new = c.valor /\ m.version_new = c.version

Kept(c) == \E m \in Range(df_new_lines) : IsCandidate(m, c)
EntirelyNew(c) == \A e \in Range(df_raw) : ~SameKey(e, c)
Supersedes(c) == \E e \in Range(df_raw) : SameKey(e, c) /\ c.version > e.version

(***************************************************************************)
(* C5: find_new_lines keeps a candidate exactly when no existing row       *)
(* shares its (company_name, conta, tipo, quarter) key, or an existing row *)
(* shares it and the candidate's version is strictly greater; every other  *)
(* candidate is dropped, and nothing but candidates is kept.               *)
(***************************************************************************)
C5_KeepsNewOrNewer ==
    Compared =>
        /\ \A c \in Range(df_math) : Kept(c) <=> (EntirelyNew(c) \/ Supersedes(c))
        /\ \A m \in Range(df_new_lines) : \E c \in Range(df_math) : IsCandidate(m, c)

\* one candidate was kept for its greater version while another, whose version
\* equals the stored one, was dropped
C5_Witness ==
    /\ Compared
    /\ \E c \in Range(df_math) : Supersedes(c) /\ Kept(c)
    /\ \E c \in Range(df_math) :
          /\ ~Kept(c)
          /\ \E e \in Range(df_raw) : SameKey(e, c) /\ e.version = c.version

(***************************************************************************)
(* C6: every reconciled row is an existing row with all columns but valor  *)
(* and version unchanged; it carries the value and version of a relevant   *)
(* candidate of its key when there is one (and each such candidate yields  *)
(* such a row), and is the existing row unchanged when there is none, as   *)
(* when the only candidate of its key has an equal version.                *)
(***************************************************************************)
RelevantFor(e) == {m \in Range(df_new_lines) : SameKey(m, e)}
Touched(e) == \E m \in Range(df_new_lines) : YearKey(m) = YearKey(e)

C7_NewCandidateSurvives ==
    Done =>
        \A c \in Range(df_math) :
            EntirelyNew(c) => \E r \in Range(math_db) : SameKey(r, c)

(***************************************************************************)
(* C8: after reconciliation a store that held one row per key holds at     *)
(* most one row per (year-group, quarter), and that row has the highest    *)
(* version among the rows that competed for the quarter.                   *)
(***************************************************************************)
OneRowPerKey(df) == \A i, j \in 1..Len(df) : SameKey(df[i], df[j]) => i = j

C8_OneRowPerQuarter ==
    (Done /\ OneRowPerKey(df_math)) =>
        /\ OneRowPerKey(math_db)
        /\ \A r \in Range(math_db) :
              \A e \in Range(df_relevant_lines) : SameKey(e, r) => e.version <= r.version

(***************************************************************************)
(* C9: for every year-group touched by a relevant candidate, the rows      *)
(* persisted by main() are one application of delta normalization to that  *)
(* year-group alone, taken as its existing rows with the relevant          *)
(* candidates' value and version substituted.                              *)
(***************************************************************************)
C9_GroupNormalizedOnce ==
    (Done /\ df_new_lines # <<>>) =>
        \A g \in Range(unique_new_lines) :
            Range(GroupIn(math_db, g))
                = Range(group_by_conta_prefix(GroupIn(df_relevant_lines, g)))

(***************************************************************************)
(* C10: the rows persisted for the same existing rows and the same         *)
(* candidates are the same whatever the order of the rows in either frame. *)
(***************************************************************************)
C10_OrderIndependent ==
    Done =>
        \A raw \in Permutations_(df_raw), math \in Permutations_(df_math) :
            Range(reconcile(raw, math)) = Range(math_db)

(***************************************************************************)
(* Vocabulary of the sector store claims                                   *)
(***************************************************************************)
\* a call of save_to_db has returned
Saved == calls > 0

\* the store of setor s holds what it held before the call, then the rows of the
\* batch whose setor is s, each once and in the order of the batch
Written(s) ==
    stores[db_name(s)] = File(stores_before[db_name(s)].rows \o group_of(df_saved, s))

C12_OneRowPerNaturalKey ==
    \A f \in StoreFiles : OneRowPerKey(stores[f].rows)

(***************************************************************************)
(* C13: after a call of save_to_db, for every setor of the batch whose     *)
(* store existed before the call and was written to in it (the write       *)
(* succeeded and changed the store, or it failed), the backup file of the  *)
(* store equals the store as it was when the call was entered.             *)
(***************************************************************************)
C13_BackupIsStoreBeforeWrite ==
    Saved =>
        \A s \in SetoresOf(df_saved) :
            (/\ stores_before[db_name(s)].exists
             /\ (stores[db_name(s)] # stores_before[db_name(s)] \/ s = failed_setor)) =>
                stores[backup_name(s)] = stores_before[db_name(s)]

\* in one call a store that held rows was written and its backup holds the rows
\* from before, and the write to another existing store failed, its backup holding
\* what the store still holds
C13_Witness ==
    /\ Saved
    /\ \E s \in SetoresOf(df_saved) :
          /\ stores_before[db_name(s)].rows # <<>>
          /\ Written(s)
          /\ stores[backup_name(s)] = stores_before[db_name(s)]
          /\ stores[backup_name(s)] # stores[db_name(s)]
    /\ failed_setor \in SetoresOf(df_saved)
    /\ stores_before[db_name(failed_setor)].rows # <<>>
    /\ stores[backup_name(failed_setor)] = stores[db_name(failed_setor)]

(***************************************************************************)
(* C14: when the write to the store of one setor fails in a call of        *)
(* save_to_db, the failure is logged and the store of every other setor of *)
(* the batch is still written.                                             *)
(***************************************************************************)
C14_RemainingSectorsWritten ==
    (Saved /\ failed_setor # NoFailure) =>
        /\ error_logged
        /\ \A s \in SetoresOf(df_saved) \ {failed_setor} : Written(s)

(***************************************************************************)
(* C15: in the listing get_nsd_data returns, every record with an empty    *)
(* setor comes after all records with a non-empty setor, whatever the      *)
(* non-empty setor strings are, and the records leave with the setor they  *)
(* entered with: the listing holds exactly the records of the merged       *)
(* frame.                                                                  *)
(***************************************************************************)
C15_EmptySectorLast ==
    pc = "listed" =>
        /\ \A i, j \in DOMAIN df_sorted :
              (i < j /\ df_sorted[i].setor = "") => df_sorted[j].setor = ""
        /\ Len(df_sorted) = Len(df_merged)
        /\ Range(df_sorted) = Range(df_merged)

(***************************************************************************)
(* Vocabulary of the discovery claims                                      *)
(***************************************************************************)
Ids == {r.nsd : r \in nsd_table.rows}
SentDates == {r.sent_date : r \in nsd_table.rows}

IsAscending(q) == \A i, j \in DOMAIN q : i < j => q[i] < q[j]

\* every integer in [1, max known id] that is not a known id
GapsOf(ids) == IF ids = {} THEN {} ELSE {n \in 1..Max(ids) : n \notin ids}

\* the earliest and the latest known sent date are the same
ZeroSpan == Ids # {} /\ Cardinality(SentDates) = 1

\* floor(rate * days since the latest date), rate = max id / date span, 0 on span 0
ForwardCount ==
    IF Cardinality(SentDates) = 1 THEN 0
    ELSE (Max(Ids) * (current_date - Max(SentDates))) \div (Max(SentDates) - Min(SentDates))

(***************************************************************************)
(* C16: the gap candidates of generate_nsd_list and of                     *)
(* generate_missing_nsds are exactly the integers in [1, max known id]     *)
(* that are not known ids, in ascending order; the ids {1,2,4,6} give      *)
(* [3,5].                                                                  *)
(***************************************************************************)
C16_GapCandidates ==
    /\ pc = "generate_nsd_list returned" =>
          /\ IsAscending(nsd_missing_values)
          /\ Range(nsd_missing_values) = GapsOf(Ids)
          /\ Ids = {1, 2, 4, 6} => nsd_missing_values = <<3, 5>>
    /\ pc = "generate_missing_nsds returned" =>
          /\ IsAscending(missing_nsds)
          /\ Range(missing_nsds) = GapsOf(Ids)
          /\ Ids = {1, 2, 4, 6} => missing_nsds = <<3, 5>>

\* generate_nsd_list returned [3, 5] for the ids {1, 2, 4, 6}
C16_Witness ==
    /\ pc = "generate_nsd_list returned"
    /\ Ids = {1, 2, 4, 6}
    /\ nsd_missing_values = <<3, 5>>

(***************************************************************************)
(* C17: for every content of the nsd table with at least one record, the   *)
(* forward candidates of generate_nsd_list are the contiguous range        *)
(* [last_id, last_id + forward_count] with last_id the maximum known id.   *)
(***************************************************************************)
C17_ForwardFromMaxId ==
    (pc = "generate_nsd_list returned" /\ Ids # {}) =>
        nsd_new_values = [i \in 1..(ForwardCount + 1) |-> Max(Ids) + i - 1]

(***************************************************************************)
(* C18 as stated: when the earliest and the latest known sent date are     *)
(* equal, generate_nsd_list returns an empty list of forward candidates.   *)
(***************************************************************************)
C18_ZeroSpanEmptyForward ==
    (pc = "generate_nsd_list returned" /\ ZeroSpan) => nsd_new_values = <<>>

(***************************************************************************)
(* C18 as amended: when the earliest and the latest known sent date are    *)
(* equal, generate_nsd_list extrapolates nothing (rate 0, no id beyond the *)
(* one it starts from) and returns the one-element forward list            *)
(* [last_nsd], last_nsd being the known id its aggregate query yielded.    *)
(***************************************************************************)
C18_ZeroSpanSingleForward ==
    (pc = "generate_nsd_list returned" /\ ZeroSpan) =>
        /\ nsd_new_values = <<last_nsd>>
        /\ last_nsd \in Ids

\* two records sent on the same day: the forward list is the single id last_nsd
C18_Witness ==
    /\ pc = "generate_nsd_list returned"
    /\ ZeroSpan
    /\ Cardinality(Ids) >= 2
    /\ Len(nsd_new_values) = 1
    /\ nsd_new_values[1] = last_nsd

C20_FinalFlush ==
    pc \in {"returned", "finsheet unbound"} => all_data = <<>>

(***************************************************************************)
(* nsd_scrape has ended, by its return or by its except clause             *)
(***************************************************************************)
NsdScrapeEnded == pc \in {"nsd_scrape returned", "nsd_scrape raised"}

(***************************************************************************)
(* C21: a candidate whose page cannot be parsed does not stop nsd_scrape:  *)
(* when nsd_scrape has ended it has returned normally, the loop has taken  *)
(* every candidate, and every record parsed before or after the page has   *)
(* been handed to save_to_db.                                              *)
(***************************************************************************)
C21_UnparsedPageSkipped ==
    NsdScrapeEnded =>
        /\ pc = "nsd_scrape returned"
        /\ nsd_i = Len(nsd_list)
        /\ Range(nsd_parsed) \subseteq Range(nsd_passed)

(***************************************************************************)
(* C24: save_to_db replaces a stored document only by one whose sent_date  *)
(* is newer: the stored sent_date of document 1 never moves back, and a    *)
(* document of the same sent_date leaves the stored row as it was.         *)
(***************************************************************************)
C24_OverwriteOnlyWhenNewer ==
    [][\A r \in (IF nsd_table.exists THEN nsd_table.rows ELSE {}) :
          \A q \in nsd_table'.rows :
             q.nsd = r.nsd => \/ q = r
                              \/ q.sent_date > r.sent_date]_vars

(***************************************************************************)
(* C27: all_data never holds more than batch_size records, and when        *)
(* nsd_scrape has ended, the records handed to save_to_db are the records  *)
(* parsed with a company, each one once and in order.                      *)
(***************************************************************************)
C27_BoundedBufferSavedOnce ==
    /\ Len(nsd_all_data) <= batch_size
    /\ NsdScrapeEnded => nsd_passed = nsd_parsed

(***************************************************************************)
(* C22: a family handed to b3_math with a missing value comes out with     *)
(* every row as it went in: no quarter adjusted, no value replaced by the  *)
(* month maximum.                                                          *)
(***************************************************************************)
HasMissing(rows) == \E i \in 1..Len(rows) : rows[i].valor = NaN

C22_MissingValueKeepsGroup ==
    Normalized =>
        \A r \in Range(df_relevant_lines) :
           LET p == FirstChar(r.conta)
           IN  HasMissing(FamilyRows(df_relevant_lines, p))
                   => FamilyRows(result_df, p) = FamilyRows(df_relevant_lines, p)

(***************************************************************************)
(* C23: a family that is in neither settings.last_quarters nor             *)
(* settings.all_quarters passes through: b3_math returns its rows as they  *)
(* are, and so does b3_math applied to what b3_math returned.              *)
(***************************************************************************)
PassThrough(p) == p \notin last_quarters /\ p \notin all_quarters

C23_PassThroughFamilyUnchanged ==
    Normalized =>
        \A r \in Range(df_relevant_lines) :
           LET p == FirstChar(r.conta)
               rows == FamilyRows(df_relevant_lines, p)
           IN  PassThrough(p) =>
                   /\ FamilyRows(result_df, p) = rows
                   /\ b3_math(rows, p) = rows
                   /\ b3_math(b3_math(rows, p), p) = rows

\* a batch with both rows of the pass-through family 1 has been normalized
C23_Witness ==
    /\ Normalized
    /\ Len(FamilyRows(df_relevant_lines, "1")) = 2
    /\ FamilyRows(result_df, "1") = FamilyRows(df_relevant_lines, "1")
    /\ PassThrough("1")

(***************************************************************************)
(* C25: every row load_db returns has a non-empty company_name and a       *)
(* quarter that is a valid date.                                           *)
(***************************************************************************)
C25_LoadDbDiscardsInvalid ==
    pc = "loaded" =>
        \A r \in Range(df_raw) : strip(r.company_name) # "" /\ r.quarter # NaT

(***************************************************************************)
(* C26: group_by_conta_prefix returns the rows it received, as many and    *)
(* with the same keys, only valor may differ; and a last-quarter           *)
(* year-group whose only row is its December row comes out unchanged.      *)
(***************************************************************************)
Keyed(r) == [r EXCEPT !.valor = 0]
Count(df, k) == Cardinality({i \in 1..Len(df) : Keyed(df[i]) = k})

SameRowSet(in, out) ==
    /\ Len(out) = Len(in)
    /\ \A r \in Range(in) \cup Range(out) : Count(out, Keyed(r)) = Count(in, Keyed(r))

OnlyDecember(rows) == Len(rows) = 1 /\ Month(rows[1].quarter) = 12

C26_RowSetPreserved ==
    Normalized =>
        /\ SameRowSet(df_relevant_lines, result_df)
        /\ \A g \in YearGroups(df_relevant_lines) :
              FamilyOf(g) \in last_quarters /\ OnlyDecember(GroupIn(df_relevant_lines, g))
                  => GroupIn(result_df, g) = GroupIn(df_relevant_lines, g)

(***************************************************************************)
(* C28: a failure while one sector store file is reconciled does not end   *)
(* main: when main has ended, its loop has taken every file of the folder. *)
(***************************************************************************)
C28_RemainingFilesProcessed ==
    pc \in {"main returned", "main raised"} => file_i = db_files

(***************************************************************************)
(* C29: filter_nsd_data selects a filing exactly when no row is stored for *)
(* its (company_name, quarter) or its version, as a number, is greater     *)
(* than the highest version stored for it, whatever the number of digits.  *)
(***************************************************************************)
VersionNumber(v) ==
    CASE v = "1" -> 1 [] v = "2" -> 2 [] v = "9" -> 9 [] v = "10" -> 10

HighestStored(r) == Max({VersionNumber(v) : v \in versions_existing(existing_data, r)})

C29_SelectsNewerAsNumber ==
    pc = "filtered" =>
        \A i \in 1..Len(df_nsd) :
           (df_nsd[i] \in Range(df_nsd_missing))
               <=> \/ versions_existing(existing_data, df_nsd[i]) = {}
                   \/ VersionNumber(df_nsd[i].version) > HighestStored(df_nsd[i])

(***************************************************************************)
(* C30: over any sequence of runs, the highest version the normalized      *)
(* store holds for a key is the highest it has ever held for it; and a run *)
(* changes the stored rows of a key only when it raises the version of the *)
(* key or re-normalizes the year-group of the key.                         *)
(***************************************************************************)
KeyRows(df, r) == SelectSeq(df, LAMBDA x : cols_order(x) = cols_order(r))
HighestVersion(df, r) == Max({x.version : x \in Range(KeyRows(df, r))})
HighestEver(r) == Max({v[2] : v \in {w \in stored_ever : w[1] = cols_order(r)}})

C30_VersionNeverDecreases ==
    \A r \in Range(math_db) : HighestVersion(math_db, r) = HighestEver(r)

C30_ValueChangesOnlyWhenTouched ==
    pc = "ran" =>
        \A r \in Range(df_math) :
           KeyRows(math_db, r) # KeyRows(df_math, r)
               => \/ YearKey(r) \in Range(unique_new_lines)
                  \/ /\ KeyRows(math_db, r) # <<>>
                     /\ HighestVersion(math_db, r) > HighestVersion(df_math, r)

C30_VersionMonotone == C30_VersionNeverDecreases /\ C30_ValueChangesOnlyWhenTouched

====
